---- MODULE Spec2Model ----
(***************************************************************************)
(* Model of the PDF retrieval server (rhuanca/pdf_mcpserver):              *)
(*   main.py                  the MCP tool retrieve_pdf_chunks and the     *)
(*                            lazy initialize_server                       *)
(*   src/pdf_processor.py     the singleton PDFProcessor: corpus build,    *)
(*                            deduplication, hybrid retriever, retrieval   *)
(*   src/retrieval_handler.py RetrievalHandler.retrieve                    *)
(*   src/query_handler.py     QueryHandler.query                           *)
(*   src/confidence.py        estimate_confidence                          *)
(* Five specifications share the state:                                    *)
(*   Spec      the server process, tool calls served one at a time         *)
(*   SpecConc  the server process, NCallers callers of the MCP tool whose  *)
(*             steps interleave (the code takes no lock)                   *)
(*   SpecTurns the server process, calls one at a time, the callers        *)
(*             keeping the answers they got                                *)
(*   SpecLib   one client that calls the classes directly, one call after  *)
(*             the other (load_and_index_pdfs, retrieve, query)            *)
(*   SpecFn    the scoring, citation and ranking functions called on       *)
(*             their own arguments                                         *)
(***************************************************************************)
EXTENDS Integers, Sequences, FiniteSets, TLC

(***************************************************************************)
(* Bounds of the model                                                     *)
(***************************************************************************)
NCallers == 2
MaxDocs == 2
MaxStore == 5
MaxChunks == 3

(***************************************************************************)
(* Program constants                                                       *)
(***************************************************************************)
DEFAULT_CHUNK_LIMIT == 5
BM25_TOP_K == 3
VECTOR_SEARCH_TOP_K == 3
RRF_C == 60
QUERY_K == 5

Callers == 1..NCallers

Min(a, b) == IF a < b THEN a ELSE b
Max(a, b) == IF a > b THEN a ELSE b
Range(s) == {s[i] : i \in 1..Len(s)}
Prefix(s, n) == SubSeq(s, 1, Min(Max(n, 0), Len(s)))

(***************************************************************************)
(* Texts.  A chunk body is one word; a query is a sequence of tokens, each *)
(* a word or the whitespace token " ".                                     *)
(***************************************************************************)
Words == {"a", "b", "c", "d"}
WordId(w) == CASE w = "a" -> 1 [] w = "b" -> 2 [] w = "c" -> 3 [] w = "d" -> 4
               [] OTHER -> 9

\* str.strip(): leading and trailing whitespace removed
RECURSIVE LStrip(_)
LStrip(q) == IF q # <<>> /\ Head(q) = " " THEN LStrip(Tail(q)) ELSE q
RECURSIVE RStrip(_)
RStrip(q) == IF q # <<>> /\ q[Len(q)] = " " THEN RStrip(SubSeq(q, 1, Len(q) - 1)) ELSE q
Strip(q) == RStrip(LStrip(q))

\* hashlib.sha256(content).hexdigest(), by its leading hex digits
GenerateHash(content) ==
  CASE content = "a" -> "ca978112"
    [] content = "b" -> "3e23e816"
    [] content = "c" -> "2e7d2c03"
    [] content = "d" -> "18ac3e73"

(***************************************************************************)
(* Documents of the PDF directory.  The converter's outcome for a file is  *)
(* a conversion error or its Markdown: a sequence of heading segments.     *)
(***************************************************************************)
Seg(h, c) == [header |-> h, content |-> c]
ConversionError == [converted |-> FALSE, segments |-> <<>>]
Markdown(segs) == [converted |-> TRUE, segments |-> segs]
Markdowns ==
  { ConversionError,
    Markdown(<<>>),
    Markdown(<<Seg("H1", "a")>>),
    Markdown(<<Seg("H1", "a"), Seg("H2", "a")>>),
    Markdown(<<Seg("H1", "b"), Seg("H2", "a")>>),
    Markdown(<<Seg("H1", "c"), Seg("H2", "d")>>) }
DocNames == {"d1.pdf", "d2.pdf", "d3.pdf", "d4.pdf"}
NameId(n) == CASE n = "d1.pdf" -> 1 [] n = "d2.pdf" -> 2 [] n = "d3.pdf" -> 3
               [] n = "d4.pdf" -> 4
UsedNames == {n \in DocNames : NameId(n) <= MaxDocs}
Docs == [name : UsedNames, md : Markdowns]
\* what glob("*.pdf") can list: files with distinct names; a file is named by
\* its place in the listing, which is the processing order
FileLists ==
  UNION { { d \in [1..n -> Docs] : \A i \in 1..n : NameId(d[i].name) = i }
          : n \in 0..MaxDocs }

\* _process_pdf: the chunks of one file, each tagged with its source
ProcessPdf(doc) ==
  [i \in 1..Len(doc.md.segments) |->
     [page_content |-> doc.md.segments[i].content,
      header |-> doc.md.segments[i].header,
      source |-> doc.name]]
\* converter.convert raises
ProcessFails(doc) == ~doc.md.converted

\* mutant of DedupChunks: the hash is recorded but never tested
RECURSIVE DedupChunksKeepAll(_, _)
DedupChunksKeepAll(chunks, acc) ==
  IF chunks = <<>> THEN acc
  ELSE DedupChunksKeepAll(Tail(chunks),
         [all_chunks |-> Append(acc.all_chunks, Head(chunks)),
          seen_hashes |-> acc.seen_hashes \cup {GenerateHash(Head(chunks).page_content)}])

\* load_and_index_pdfs, the inner loop: a chunk is kept when its hash is new
RECURSIVE DedupChunks(_, _)
DedupChunks(chunks, acc) ==
  IF chunks = <<>> THEN acc
  ELSE LET chunk == Head(chunks)
           chunk_hash == GenerateHash(chunk.page_content)
       IN  IF chunk_hash \notin acc.seen_hashes
           THEN DedupChunks(Tail(chunks),
                            [all_chunks |-> Append(acc.all_chunks, chunk),
                             seen_hashes |-> acc.seen_hashes \cup {chunk_hash}])
           ELSE DedupChunks(Tail(chunks), acc)

\* mutant of ProcessFiles: the first file that fails ends the loop
RECURSIVE ProcessFilesAbort(_, _)
ProcessFilesAbort(pdf_files, acc) ==
  IF pdf_files = <<>> THEN acc
  ELSE IF ~Head(pdf_files).md.converted
       THEN acc
       ELSE ProcessFilesAbort(Tail(pdf_files),
                              DedupChunks(ProcessPdf(Head(pdf_files)), acc))

\* load_and_index_pdfs, the outer loop: a file whose processing fails is skipped
RECURSIVE ProcessFiles(_, _)
ProcessFiles(pdf_files, acc) ==
  IF pdf_files = <<>> THEN acc
  ELSE IF ProcessFails(Head(pdf_files))
       THEN ProcessFiles(Tail(pdf_files), acc)
       ELSE ProcessFiles(Tail(pdf_files), DedupChunks(ProcessPdf(Head(pdf_files)), acc))

LoadChunks(pdf_files) ==
  ProcessFiles(pdf_files, [all_chunks |-> <<>>, seen_hashes |-> {}]).all_chunks

(***************************************************************************)
(* The two sub-indexes and their fusion (_build_hybrid_retriever).         *)
(* The lexical index ranks the chunks that contain a word of the query,    *)
(* the semantic index the stored chunks near the query, nearest first;     *)
(* each returns at most its own top-k.                                     *)
(***************************************************************************)
QueryWords(query) == Range(query) \ {" "}
LexicalMatch(query, chunk) == chunk.page_content \in QueryWords(query)
Abs(x) == IF x < 0 THEN -x ELSE x
Distance(query, chunk) ==
  IF QueryWords(query) = {} THEN 9
  ELSE LET ds == {Abs(WordId(w) - WordId(chunk.page_content)) : w \in QueryWords(query)}
       IN  CHOOSE d \in ds : \A e \in ds : d <= e

BM25Search(docs, query) ==
  Prefix(SelectSeq(docs, LAMBDA c : LexicalMatch(query, c)), BM25_TOP_K)

VectorSearch(store, query) ==
  Prefix(SelectSeq(store, LAMBDA c : Distance(query, c) = 0)
           \o SelectSeq(store, LAMBDA c : Distance(query, c) = 1),
         VECTOR_SEARCH_TOP_K)

\* HYBRID_RETRIEVER_WEIGHTS = [0.5, 0.5], in tenths
WeightBM25 == 5
WeightVector == 5
\* 1 / (rank + c) for the ranks 1..3 over the common denominator 61 * 62 * 63
RRFScale == (RRF_C + 1) * (RRF_C + 2) * (RRF_C + 3)
RECURSIVE RankSum(_, _, _)
RankSum(doc_list, content, rank) ==
  IF rank > Len(doc_list) THEN 0
  ELSE (IF doc_list[rank].page_content = content
        THEN RRFScale \div (RRF_C + rank) ELSE 0)
       + RankSum(doc_list, content, rank + 1)
RRFScore(lex, sem, content) ==
  WeightBM25 * RankSum(lex, content, 1) + WeightVector * RankSum(sem, content, 1)

\* unique_by_key(all_docs, page_content): first occurrence kept
RECURSIVE UniqueByContent(_, _)
UniqueByContent(docs, seen) ==
  IF docs = <<>> THEN <<>>
  ELSE IF Head(docs).page_content \in seen THEN UniqueByContent(Tail(docs), seen)
       ELSE <<Head(docs)>> \o UniqueByContent(Tail(docs), seen \cup {Head(docs).page_content})

\* mutant of InsertByScore: a document goes before the documents of its score
RECURSIVE InsertByScoreBeforeEqual(_, _, _, _)
InsertByScoreBeforeEqual(sorted, doc, lex, sem) ==
  IF sorted = <<>> THEN <<doc>>
  ELSE IF RRFScore(lex, sem, Head(sorted).page_content)
            > RRFScore(lex, sem, doc.page_content)
       THEN <<Head(sorted)>> \o InsertByScoreBeforeEqual(Tail(sorted), doc, lex, sem)
       ELSE <<doc>> \o sorted

\* sorted(..., reverse=True, key=score): stable, equal scores keep their order
RECURSIVE InsertByScore(_, _, _, _)
InsertByScore(sorted, doc, lex, sem) ==
  IF sorted = <<>> THEN <<doc>>
  ELSE IF RRFScore(lex, sem, Head(sorted).page_content)
            >= RRFScore(lex, sem, doc.page_content)
       THEN <<Head(sorted)>> \o InsertByScore(Tail(sorted), doc, lex, sem)
       ELSE <<doc>> \o sorted
RECURSIVE SortByScore(_, _, _, _)
SortByScore(docs, sorted, lex, sem) ==
  IF docs = <<>> THEN sorted
  ELSE SortByScore(Tail(docs), InsertByScore(sorted, Head(docs), lex, sem), lex, sem)

WeightedReciprocalRank(lex, sem) ==
  SortByScore(UniqueByContent(lex \o sem, {}), <<>>, lex, sem)

\* EnsembleRetriever.invoke over the BM25 documents and the vector store
HybridInvoke(retriever, store, query) ==
  WeightedReciprocalRank(BM25Search(retriever.bm25_docs, query),
                         VectorSearch(store, query))

\* results[:k], a Python slice: a negative k counts from the end
SliceTo(results, k) ==
  IF k >= 0 THEN SubSeq(results, 1, Min(k, Len(results)))
  ELSE SubSeq(results, 1, Max(Len(results) + k, 0))

(***************************************************************************)
(* Outcomes of a call: a returned value or a raised exception.             *)
(***************************************************************************)
\* Optional[int]: None, and the int n
None == [is_none |-> TRUE, value |-> 0]
SomeInt(n) == [is_none |-> FALSE, value |-> n]
\* chunk.metadata.get(key, default): the metadata keys are fields of the chunk
Get(chunk, key, default) == IF key \in DOMAIN chunk THEN chunk[key] ELSE default
NoRetriever == [is_none |-> TRUE, bm25_docs |-> <<>>]
Returned(v) == [exc |-> "none", msg |-> "", value |-> v]
Raised(e, m) == [exc |-> e, msg |-> m, value |-> <<>>]

\* mutant of RetrieveRelevantChunks: no test that the retriever is set; a
\* missing retriever gives the results of empty indexes
RetrieveRelevantChunksUnchecked(retriever, store, query, k, invoke_fails) ==
  IF invoke_fails
  THEN Raised("Exception", "retriever failed")
  ELSE Returned(SliceTo(IF retriever.is_none THEN <<>>
                        ELSE HybridInvoke(retriever, store, query), k))

\* PDFProcessor.retrieve_relevant_chunks; invoke_fails: the retriever raises
RetrieveRelevantChunks(retriever, store, query, k, invoke_fails) ==
  IF retriever.is_none
  THEN Raised("ValueError", "Retriever not initialized")
  ELSE IF invoke_fails
       THEN Raised("Exception", "retriever failed")
       ELSE Returned(SliceTo(HybridInvoke(retriever, store, query), k))

\* RetrievalHandler._validate_query
QueryIsEmpty(query) == query = <<>> \/ Strip(query) = <<>>

\* RetrievalHandler._convert_to_document_chunks
ConvertToDocumentChunks(raw_chunks) ==
  [i \in 1..Len(raw_chunks) |->
     [content |-> raw_chunks[i].page_content,
      document_name |-> Get(raw_chunks[i], "source", "Unknown"),
      page_number |-> Get(raw_chunks[i], "page", None),
      metadata |-> raw_chunks[i].header]]

\* RetrievalHandler.retrieve
HandlerRetrieve(retriever, store, query, max_chunks, invoke_fails) ==
  IF QueryIsEmpty(query)
  THEN Raised("ValueError", "Query cannot be empty")
  ELSE LET raw == RetrieveRelevantChunks(retriever, store, Strip(query),
                                         max_chunks, invoke_fails)
       IN  IF raw.exc # "none" THEN raw
           ELSE LET document_chunks == ConvertToDocumentChunks(raw.value)
                IN  Returned([query |-> Strip(query),
                              chunks |-> document_chunks,
                              total_chunks |-> Len(document_chunks)])

(***************************************************************************)
(* Texts of answers and chunk bodies are strings; str.lower() and the      *)
(* substring test are computed character by character.                     *)
(***************************************************************************)
UpperLetters == "ABCDEFGHIJKLMNOPQRSTUVWXYZ"
LowerLetters == "abcdefghijklmnopqrstuvwxyz"
CharAt(s, i) == SubSeq(s, i, i)
LowerChar(c) ==
  IF \E i \in 1..Len(UpperLetters) : CharAt(UpperLetters, i) = c
  THEN CharAt(LowerLetters, CHOOSE i \in 1..Len(UpperLetters) : CharAt(UpperLetters, i) = c)
  ELSE c
\* str.lower(): every character mapped, the two halves one after the other
RECURSIVE Lower(_)
Lower(s) == IF Len(s) = 0 THEN s
            ELSE IF Len(s) = 1 THEN LowerChar(s)
            ELSE Lower(SubSeq(s, 1, Len(s) \div 2))
                   \o Lower(SubSeq(s, Len(s) \div 2 + 1, Len(s)))
\* phrase in text
Contains(text, phrase) ==
  \E i \in 1..(Len(text) - Len(phrase) + 1) :
    SubSeq(text, i, i + Len(phrase) - 1) = phrase
\* s * n
RECURSIVE Repeat(_, _)
Repeat(s, n) == IF n <= 0 THEN "" ELSE s \o Repeat(s, n - 1)

(***************************************************************************)
(* Python floats (IEEE binary64) of magnitude below 2, counted in units of *)
(* 2^-56: a sign and a magnitude hi * 2^28 + lo.  A sum is rounded to 53   *)
(* significant bits, to nearest, ties to even.                             *)
(***************************************************************************)
Limb == 2^28
Float(neg, hi, lo) == [neg |-> neg, hi |-> hi, lo |-> lo]
FZero == Float(FALSE, 0, 0)
FOne == Float(FALSE, Limb, 0)
FIsZero(x) == x.hi = 0 /\ x.lo = 0
MagLess(a, b) == a.hi < b.hi \/ (a.hi = b.hi /\ a.lo < b.lo)
MagAdd(a, b) ==
  LET lo == a.lo + b.lo
  IN  [hi |-> a.hi + b.hi + (lo \div Limb), lo |-> lo % Limb]
\* a - b for b <= a
MagSub(a, b) ==
  IF a.lo >= b.lo THEN [hi |-> a.hi - b.hi, lo |-> a.lo - b.lo]
  ELSE [hi |-> a.hi - b.hi - 1, lo |-> a.lo + Limb - b.lo]
\* the bits of the magnitude below the 53 significant ones
DroppedBits(m) ==
  IF m.hi >= 2^28 THEN 4 ELSE IF m.hi >= 2^27 THEN 3
  ELSE IF m.hi >= 2^26 THEN 2 ELSE IF m.hi >= 2^25 THEN 1 ELSE 0
RoundMag(m) ==
  LET step == 2^DroppedBits(m)
      r == m.lo % step
      down == m.lo - r
      up == (2 * r > step) \/ (2 * r = step /\ (down \div step) % 2 = 1)
      lo == IF up THEN down + step ELSE down
  IN  [hi |-> m.hi + (lo \div Limb), lo |-> lo % Limb]
Signed(neg, m) == Float(neg, m.hi, m.lo)
\* x + y
FAdd(x, y) ==
  IF x.neg = y.neg THEN Signed(x.neg, RoundMag(MagAdd(x, y)))
  ELSE IF MagLess(x, y) THEN Signed(y.neg, RoundMag(MagSub(y, x)))
  ELSE IF MagLess(y, x) THEN Signed(x.neg, RoundMag(MagSub(x, y)))
  ELSE FZero
\* -x
FNeg(x) == [x EXCEPT !.neg = ~x.neg]
\* x - y
FSub(x, y) == FAdd(x, FNeg(y))
\* x < y
FLess(x, y) ==
  IF FIsZero(x) /\ FIsZero(y) THEN FALSE
  ELSE IF x.neg # y.neg THEN x.neg
  ELSE IF x.neg THEN MagLess(y, x) ELSE MagLess(x, y)
\* min(a, b) and max(a, b): the first argument unless the second is beyond it
FMin(a, b) == IF FLess(b, a) THEN b ELSE a
FMax(a, b) == IF FLess(a, b) THEN b ELSE a

(***************************************************************************)
(* Confidence scoring: constants.py, confidence.estimate_confidence and    *)
(* QueryHandler._estimate_confidence.                                      *)
(***************************************************************************)
\* 0.5, 0.2, 0.2, 0.2, 0.1, 0.3 as binary64
BASE_CONFIDENCE == Float(FALSE, 134217728, 0)
CONFIDENCE_LONG_ANSWER_THRESHOLD == 100
CONFIDENCE_SHORT_ANSWER_THRESHOLD == 30
CONFIDENCE_MIN_CHUNKS_THRESHOLD == 3
CONFIDENCE_BOOST_LONG == Float(FALSE, 53687091, 53687092)
CONFIDENCE_PENALTY_SHORT == Float(FALSE, 53687091, 53687092)
CONFIDENCE_BOOST_MANY_CHUNKS == Float(FALSE, 53687091, 53687092)
CONFIDENCE_PENALTY_FEW_CHUNKS == Float(FALSE, 26843545, 161061274)
CONFIDENCE_PENALTY_UNCERTAINTY == Float(FALSE, 80530636, 214748364)
UNCERTAINTY_PHRASES ==
  <<"i don't know", "i couldn't find", "not enough information", "unclear",
    "uncertain">>

\* mutant of GetLengthAdjustment: an answer of exactly the threshold length
\* counts as long
GetLengthAdjustmentInclusive(answer) ==
  IF Len(answer) >= CONFIDENCE_LONG_ANSWER_THRESHOLD THEN CONFIDENCE_BOOST_LONG
  ELSE IF Len(answer) < CONFIDENCE_SHORT_ANSWER_THRESHOLD
       THEN FNeg(CONFIDENCE_PENALTY_SHORT)
       ELSE FZero

\* confidence._get_length_adjustment
GetLengthAdjustment(answer) ==
  IF Len(answer) > CONFIDENCE_LONG_ANSWER_THRESHOLD THEN CONFIDENCE_BOOST_LONG
  ELSE IF Len(answer) < CONFIDENCE_SHORT_ANSWER_THRESHOLD
       THEN FNeg(CONFIDENCE_PENALTY_SHORT)
       ELSE FZero

\* confidence._get_chunk_count_adjustment
GetChunkCountAdjustment(num_chunks) ==
  IF num_chunks >= CONFIDENCE_MIN_CHUNKS_THRESHOLD THEN CONFIDENCE_BOOST_MANY_CHUNKS
  ELSE IF num_chunks = 1 THEN FNeg(CONFIDENCE_PENALTY_FEW_CHUNKS)
       ELSE FZero

\* confidence._contains_uncertainty
ContainsUncertainty(answer) ==
  LET answer_lower == Lower(answer)
  IN  \E i \in 1..Len(UNCERTAINTY_PHRASES) : Contains(answer_lower, UNCERTAINTY_PHRASES[i])

\* confidence.estimate_confidence
ModuleEstimateConfidence(answer, num_chunks) ==
  LET c1 == FAdd(BASE_CONFIDENCE, GetLengthAdjustment(answer))
      c2 == FAdd(c1, GetChunkCountAdjustment(num_chunks))
      c3 == IF ContainsUncertainty(answer)
            THEN FSub(c2, CONFIDENCE_PENALTY_UNCERTAINTY) ELSE c2
  IN  FMax(FZero, FMin(FOne, c3))

\* mutant of EstimateConfidence: the sum is returned without the clamp
EstimateConfidenceUnclamped(answer, num_chunks) ==
  LET c1 == FAdd(BASE_CONFIDENCE, GetLengthAdjustment(answer))
      c2 == FAdd(c1, GetChunkCountAdjustment(num_chunks))
  IN  IF ContainsUncertainty(answer)
      THEN FSub(c2, CONFIDENCE_PENALTY_UNCERTAINTY) ELSE c2

\* QueryHandler._estimate_confidence: the same heuristic with its own literals
\* and its own list of phrases
EstimateConfidence(answer, num_chunks) ==
  LET uncertainty_phrases ==
        <<"i don't know", "i couldn't find", "not enough information", "unclear",
          "uncertain">>
      c0 == Float(FALSE, 134217728, 0)
      c1 == IF Len(answer) > 100 THEN FAdd(c0, Float(FALSE, 53687091, 53687092))
            ELSE IF Len(answer) < 30 THEN FSub(c0, Float(FALSE, 53687091, 53687092))
            ELSE c0
      c2 == IF num_chunks >= 3 THEN FAdd(c1, Float(FALSE, 53687091, 53687092))
            ELSE IF num_chunks = 1 THEN FSub(c1, Float(FALSE, 26843545, 161061274))
            ELSE c1
      answer_lower == Lower(answer)
      c3 == IF \E i \in 1..Len(uncertainty_phrases) :
                  Contains(answer_lower, uncertainty_phrases[i])
            THEN FSub(c2, Float(FALSE, 80530636, 214748364)) ELSE c2
  IN  FMax(FZero, FMin(FOne, c3))

(***************************************************************************)
(* QueryHandler: sources and the answer-mode response.                     *)
(***************************************************************************)
\* texts the generation endpoint returns to QueryHandler.query
Answers ==
  { "Short answer.",
    "I don't know the answer to this question.",
    Repeat("This is a comprehensive answer. ", 4) }
\* the fixed answer of the no-match path
NoChunksFoundAnswer ==
  "I couldn't find any relevant information in the documents to answer your question."

\* the response models of answer mode: Source and QueryResponse
Source(document_name, page_number, chunk_text) ==
  [document_name |-> document_name, page_number |-> page_number,
   chunk_text |-> chunk_text]
QueryResponse(answer, sources, confidence_score) ==
  [answer |-> answer, sources |-> sources, confidence_score |-> confidence_score]

\* mutant of ChunkText: the marker is appended to every preview
ChunkTextAlwaysMarked(page_content) == SliceTo(page_content, 200) \o "..."

\* _extract_sources: page_content[:200], and "..." after it when the body is
\* longer
ChunkText(page_content) ==
  LET chunk_text == SliceTo(page_content, 200)
  IN  IF Len(page_content) > 200 THEN chunk_text \o "..." ELSE chunk_text

\* mutant of ExtractSources: a source is recognised by its name alone
RECURSIVE ExtractSourcesByName(_, _)
ExtractSourcesByName(chunks, seen_sources) ==
  IF chunks = <<>> THEN <<>>
  ELSE LET source_name == Get(Head(chunks), "source", "Unknown")
           page_number == Get(Head(chunks), "page", None)
       IN  IF source_name \in seen_sources
           THEN ExtractSourcesByName(Tail(chunks), seen_sources)
           ELSE <<Source(source_name, page_number, ChunkText(Head(chunks).page_content))>>
                \o ExtractSourcesByName(Tail(chunks), seen_sources \cup {source_name})

\* QueryHandler._extract_sources: one Source per (source, page), first seen
RECURSIVE ExtractSources(_, _)
ExtractSources(chunks, seen_sources) ==
  IF chunks = <<>> THEN <<>>
  ELSE LET source_name == Get(Head(chunks), "source", "Unknown")
           page_number == Get(Head(chunks), "page", None)
           source_key == <<source_name, page_number>>
       IN  IF source_key \in seen_sources
           THEN ExtractSources(Tail(chunks), seen_sources)
           ELSE <<Source(source_name, page_number, ChunkText(Head(chunks).page_content))>>
                \o ExtractSources(Tail(chunks), seen_sources \cup {source_key})

\* mutant of HandlerQuery: no short-circuit when nothing was retrieved
HandlerQueryNoShortCircuit(retriever, store, question, llm_answer, llm_fails, invoke_fails) ==
  IF QueryIsEmpty(question)
  THEN Raised("ValueError", "Question cannot be empty")
  ELSE LET relevant == RetrieveRelevantChunks(retriever, store, Strip(question),
                                              QUERY_K, invoke_fails)
       IN  IF relevant.exc # "none" THEN relevant
           ELSE IF llm_fails THEN Raised("Exception", "generation failed")
           ELSE Returned(QueryResponse(llm_answer,
                                  ExtractSources(relevant.value, {}),
                                  EstimateConfidence(llm_answer, Len(relevant.value))))

\* QueryHandler.query; llm_answer: the text the endpoint generates, llm_fails:
\* the endpoint raises
HandlerQuery(retriever, store, question, llm_answer, llm_fails, invoke_fails) ==
  IF QueryIsEmpty(question)
  THEN Raised("ValueError", "Question cannot be empty")
  ELSE LET relevant == RetrieveRelevantChunks(retriever, store, Strip(question),
                                              QUERY_K, invoke_fails)
       IN  IF relevant.exc # "none" THEN relevant
           ELSE IF relevant.value = <<>>
                THEN Returned(QueryResponse(NoChunksFoundAnswer, <<>>, FZero))
                ELSE IF llm_fails THEN Raised("Exception", "generation failed")
                ELSE Returned(QueryResponse(llm_answer,
                                            ExtractSources(relevant.value, {}),
                                            EstimateConfidence(llm_answer,
                                                               Len(relevant.value))))

(***************************************************************************)
(* State                                                                   *)
(***************************************************************************)
VARIABLES
  api_key_set,        \* config.OPENAI_API_KEY is non-empty
  vector_db,          \* the documents persisted under CHROMA_DB_DIR
  instance,           \* PDFProcessor._instance exists and is initialized
  chunks,             \* PDFProcessor.chunks
  hybrid_retriever,   \* PDFProcessor.hybrid_retriever: None or the retriever
  pdf_processor,      \* main.pdf_processor is set
  retrieval_handler,  \* main.retrieval_handler is set
  pc,                 \* per caller: where its call stands
  entry,              \* per caller: the entry point of its call
  query,              \* per caller: the query argument
  max_chunks,         \* per caller: the max_chunks argument
  result,             \* per caller: what its call gave back
  build_started,      \* per caller: this call started a corpus build
  searched,           \* per caller: this call invoked the hybrid retriever
  built_from,         \* the file list the current chunk list was built from
  builds_ok,          \* a build has completed successfully on the processor
  builders,           \* the callers that have started a corpus build
  pdf_files,          \* per caller: the file list its build has read
  fn_input,           \* the arguments of a function called on its own
  fn_output           \* what the functions called on fn_input returned

vars == <<api_key_set, vector_db, instance, chunks, hybrid_retriever,
          pdf_processor, retrieval_handler, pc, entry, query, max_chunks, result,
          build_started, searched, built_from, builds_ok, builders, pdf_files,
          fn_input, fn_output>>

envVars == <<api_key_set>>
fnVars == <<fn_input, fn_output>>
processorVars == <<instance, chunks, hybrid_retriever, built_from, builds_ok>>
serverVars == <<pdf_processor, retrieval_handler>>
argVars == <<entry, query, max_chunks>>

NoFiles == [read |-> FALSE, files |-> <<>>]
NoBuild == [built |-> FALSE, files |-> <<>>]
NoResult == [kind |-> "none", exc |-> "none", msg |-> "", value |-> <<>>]
NoInput == [fn |-> "none", answer |-> "", num_chunks |-> 0, chunks |-> <<>>,
            lex |-> <<>>, sem |-> <<>>, k |-> 0]
NoOutput == [done |-> {}, module |-> FZero, method |-> FZero, sources |-> <<>>,
             fused |-> <<>>, results |-> <<>>]

\* the arguments the callers pass
Queries == { <<>>, <<" ", " ">>, <<" ", "a", " ">>, <<"b", "c">>, <<"z">> }
Limits == { -1, 0, 2, DEFAULT_CHUNK_LIMIT }
ConcQueries == { <<" ">>, <<"a">> }
ConcLimits == { 2 }
ConcFileLists ==
  { <<>>,
    <<[name |-> "d1.pdf", md |-> Markdown(<<Seg("H1", "a")>>)]>>,
    <<[name |-> "d1.pdf", md |-> Markdown(<<Seg("H1", "b"), Seg("H2", "a")>>)]>> }
\* the listings a client of the classes loads: none, every kind of empty
\* corpus, duplicates within and across files, a corpus of four chunks
LibFileLists ==
  { <<>>,
    <<[name |-> "d1.pdf", md |-> ConversionError]>>,
    <<[name |-> "d1.pdf", md |-> Markdown(<<>>)]>>,
    <<[name |-> "d1.pdf", md |-> ConversionError],
      [name |-> "d2.pdf", md |-> Markdown(<<>>)]>>,
    <<[name |-> "d1.pdf", md |-> Markdown(<<Seg("H1", "a")>>)]>>,
    <<[name |-> "d1.pdf", md |-> ConversionError],
      [name |-> "d2.pdf", md |-> Markdown(<<Seg("H1", "a"), Seg("H2", "a")>>)]>>,
    <<[name |-> "d1.pdf", md |-> Markdown(<<Seg("H1", "a")>>)],
      [name |-> "d2.pdf", md |-> Markdown(<<Seg("H1", "b"), Seg("H2", "a")>>)]>>,
    <<[name |-> "d1.pdf", md |-> Markdown(<<Seg("H1", "b"), Seg("H2", "a")>>)],
      [name |-> "d2.pdf", md |-> Markdown(<<Seg("H1", "c"), Seg("H2", "d")>>)]>> }

InitProgram ==
  /\ api_key_set \in BOOLEAN
  /\ vector_db = <<>>
  /\ instance = FALSE
  /\ chunks = <<>>
  /\ hybrid_retriever = NoRetriever
  /\ pdf_processor = FALSE
  /\ retrieval_handler = FALSE
  /\ pc = [t \in Callers |-> "idle"]
  /\ entry = [t \in Callers |-> "none"]
  /\ query = [t \in Callers |-> <<>>]
  /\ max_chunks = [t \in Callers |-> 0]
  /\ result = [t \in Callers |-> NoResult]
  /\ build_started = [t \in Callers |-> FALSE]
  /\ searched = [t \in Callers |-> FALSE]
  /\ built_from = NoBuild
  /\ builds_ok = FALSE
  /\ builders = {}
  /\ pdf_files = [t \in Callers |-> NoFiles]

Init == InitProgram /\ fn_input = NoInput /\ fn_output = NoOutput

(***************************************************************************)
(* How a call ends                                                         *)
(***************************************************************************)
\* mutant of ToolReturn: only ValueError is caught, anything else propagates
ToolReturnValueErrorOnly(outcome) ==
  IF outcome.exc = "none"
  THEN [kind |-> "json", exc |-> "none", msg |-> "", value |-> outcome.value]
  ELSE IF outcome.exc = "ValueError"
       THEN [kind |-> "validation_error", exc |-> outcome.exc, msg |-> outcome.msg,
             value |-> <<>>]
       ELSE [kind |-> "raised", exc |-> outcome.exc, msg |-> outcome.msg,
             value |-> <<>>]

\* retrieve_pdf_chunks, the except clauses: every outcome becomes a payload
ToolReturn(outcome) ==
  IF outcome.exc = "none"
  THEN [kind |-> "json", exc |-> "none", msg |-> "", value |-> outcome.value]
  ELSE IF outcome.exc = "ValueError"
       THEN [kind |-> "validation_error", exc |-> outcome.exc, msg |-> outcome.msg,
             value |-> <<>>]
       ELSE [kind |-> "internal_error", exc |-> outcome.exc, msg |-> outcome.msg,
             value |-> <<>>]

\* a direct call of a class: the outcome reaches the client as it is
LibReturn(outcome) ==
  IF outcome.exc = "none"
  THEN [kind |-> "returned", exc |-> "none", msg |-> "", value |-> outcome.value]
  ELSE [kind |-> "raised", exc |-> outcome.exc, msg |-> outcome.msg, value |-> <<>>]

Finish(t, outcome) ==
  /\ result' = [result EXCEPT ![t] = IF entry[t] = "tool" THEN ToolReturn(outcome)
                                     ELSE LibReturn(outcome)]
  /\ pc' = [pc EXCEPT ![t] = "done"]

MaxCorpus == Cardinality(Words)

(***************************************************************************)
(* The MCP tool retrieve_pdf_chunks and initialize_server (main.py)        *)
(***************************************************************************)
\* retrieve_pdf_chunks is entered; the lazy-initialisation test of line 67
ToolCall(t, q, k) ==
  /\ pc[t] = "idle"
  /\ entry' = [entry EXCEPT ![t] = "tool"]
  /\ query' = [query EXCEPT ![t] = q]
  /\ max_chunks' = [max_chunks EXCEPT ![t] = k]
  /\ pc' = [pc EXCEPT ![t] = IF retrieval_handler THEN "retrieve" ELSE "init"]
  /\ UNCHANGED <<envVars, fnVars, vector_db, processorVars, serverVars, result,
                 build_started, searched, builders, pdf_files>>

\* initialize_server: the already-initialised test, then clear_vector_db
InitializeServer(t, clear_fails) ==
  /\ pc[t] = "init"
  /\ IF retrieval_handler
     THEN /\ pc' = [pc EXCEPT ![t] = "retrieve"]
          /\ clear_fails = FALSE
          /\ UNCHANGED <<vector_db, build_started, builders>>
     ELSE /\ clear_fails => (vector_db # <<>> /\ Len(vector_db) + MaxCorpus <= MaxStore)
          /\ vector_db' = IF clear_fails THEN vector_db ELSE <<>>
          /\ build_started' = [build_started EXCEPT ![t] = TRUE]
          /\ builders' = builders \cup {t}
          /\ pc' = [pc EXCEPT ![t] = "validate"]
  /\ UNCHANGED <<envVars, fnVars, processorVars, serverVars, argVars, result, searched,
                 pdf_files>>

\* mutant of ValidateAndConstruct: the handler is assigned with the processor,
\* before the corpus is loaded
ValidateAndConstructSetsHandler(t, dir_exists) ==
  /\ pc[t] = "validate"
  /\ IF ~(api_key_set /\ dir_exists)
     THEN /\ Finish(t, Raised("ValueError", "invalid configuration"))
          /\ UNCHANGED <<instance, chunks, hybrid_retriever, pdf_processor,
                         retrieval_handler>>
     ELSE /\ instance' = TRUE
          /\ chunks' = IF instance THEN chunks ELSE <<>>
          /\ hybrid_retriever' = IF instance THEN hybrid_retriever ELSE NoRetriever
          /\ pdf_processor' = TRUE
          /\ retrieval_handler' = TRUE
          /\ pc' = [pc EXCEPT ![t] = "load"]
          /\ UNCHANGED result
  /\ UNCHANGED <<envVars, fnVars, vector_db, argVars, build_started,
                 searched, built_from, builds_ok, builders, pdf_files>>

\* config.validate; dir_exists: PDF_DOCUMENTS_DIR is a directory at this time
ConfigValid(dir_exists) == api_key_set /\ dir_exists

\* initialize_server: config.validate(), then PDFProcessor()
ValidateAndConstruct(t, dir_exists) ==
  /\ pc[t] = "validate"
  /\ IF ~ConfigValid(dir_exists)
     THEN /\ Finish(t, Raised("ValueError", "invalid configuration"))
          /\ UNCHANGED <<instance, chunks, hybrid_retriever, pdf_processor>>
     ELSE /\ instance' = TRUE
          /\ chunks' = IF instance THEN chunks ELSE <<>>
          /\ hybrid_retriever' = IF instance THEN hybrid_retriever ELSE NoRetriever
          /\ pdf_processor' = TRUE
          /\ pc' = [pc EXCEPT ![t] = "load"]
          /\ UNCHANGED result
  /\ UNCHANGED <<envVars, fnVars, vector_db, retrieval_handler, argVars, build_started,
                 searched, built_from, builds_ok, builders, pdf_files>>

(***************************************************************************)
(* PDFProcessor.load_and_index_pdfs and _build_hybrid_retriever            *)
(***************************************************************************)
\* mutant of LoadAndDedup: self.chunks is assigned before the emptiness test
LoadAndDedupAssignsFirst(t, files) ==
  /\ pc[t] = "load"
  /\ pdf_files' = [pdf_files EXCEPT ![t] = [read |-> TRUE, files |-> files]]
  /\ LET all_chunks == LoadChunks(files)
     IN  IF files = <<>>
         THEN /\ Finish(t, Raised("ValueError", "No PDF files found"))
              /\ UNCHANGED <<chunks, built_from>>
         ELSE /\ chunks' = all_chunks
              /\ built_from' = [built |-> TRUE, files |-> files]
              /\ IF all_chunks = <<>>
                 THEN Finish(t, Raised("ValueError", "No chunks were successfully processed"))
                 ELSE /\ pc' = [pc EXCEPT ![t] = "vector"]
                      /\ UNCHANGED result
  /\ UNCHANGED <<envVars, fnVars, vector_db, instance, hybrid_retriever, builds_ok,
                 serverVars, argVars, build_started, searched, builders>>

\* load_and_index_pdfs up to the assignment of self.chunks; files: what
\* config.get_pdf_files lists at this time
LoadAndDedup(t, files) ==
  /\ pc[t] = "load"
  /\ pdf_files' = [pdf_files EXCEPT ![t] = [read |-> TRUE, files |-> files]]
  /\ LET all_chunks == LoadChunks(files)
     IN  IF files = <<>>
         THEN /\ Finish(t, Raised("ValueError", "No PDF files found"))
              /\ UNCHANGED <<chunks, built_from>>
         ELSE IF all_chunks = <<>>
              THEN /\ Finish(t, Raised("ValueError", "No chunks were successfully processed"))
                   /\ UNCHANGED <<chunks, built_from>>
              ELSE /\ chunks' = all_chunks
                   /\ built_from' = [built |-> TRUE, files |-> files]
                   /\ pc' = [pc EXCEPT ![t] = "vector"]
                   /\ UNCHANGED result
  /\ UNCHANGED <<envVars, fnVars, vector_db, instance, hybrid_retriever, builds_ok,
                 serverVars, argVars, build_started, searched, builders>>

\* mutant of BuildVectorStore: a retriever over the vector index alone is
\* installed as soon as the vector store exists
BuildVectorStoreInstalls(t, fails) ==
  /\ pc[t] = "vector"
  /\ IF fails
     THEN /\ Finish(t, Raised("Exception", "vector store failed"))
          /\ UNCHANGED <<vector_db, hybrid_retriever>>
     ELSE /\ Len(vector_db) + Len(chunks) <= MaxStore
          /\ vector_db' = vector_db \o chunks
          /\ hybrid_retriever' = [is_none |-> FALSE, bm25_docs |-> <<>>]
          /\ pc' = [pc EXCEPT ![t] = "bm25"]
          /\ UNCHANGED result
  /\ UNCHANGED <<envVars, fnVars, instance, chunks, built_from, builds_ok, serverVars,
                 argVars, build_started, searched, builders, pdf_files>>

\* _build_hybrid_retriever: Chroma.from_documents adds self.chunks to the store
BuildVectorStore(t, fails) ==
  /\ pc[t] = "vector"
  /\ IF fails
     THEN /\ Finish(t, Raised("Exception", "vector store failed"))
          /\ UNCHANGED vector_db
     ELSE /\ Len(vector_db) + Len(chunks) <= MaxStore
          /\ vector_db' = vector_db \o chunks
          /\ pc' = [pc EXCEPT ![t] = "bm25"]
          /\ UNCHANGED result
  /\ UNCHANGED <<envVars, fnVars, processorVars, serverVars, argVars, build_started,
                 searched, builders, pdf_files>>

\* the retriever _build_hybrid_retriever installs
NewRetriever(docs) == [is_none |-> FALSE, bm25_docs |-> docs]

\* _build_hybrid_retriever: BM25Retriever.from_documents, then the ensemble
BuildBM25AndInstall(t, fails) ==
  /\ pc[t] = "bm25"
  /\ IF fails
     THEN /\ Finish(t, Raised("Exception", "BM25 failed"))
          /\ UNCHANGED <<hybrid_retriever, builds_ok>>
     ELSE /\ hybrid_retriever' = NewRetriever(chunks)
          /\ builds_ok' = TRUE
          /\ IF entry[t] = "tool"
             THEN /\ pc' = [pc EXCEPT ![t] = "sethandler"]
                  /\ UNCHANGED result
             ELSE Finish(t, Returned(<<>>))
  /\ UNCHANGED <<envVars, fnVars, vector_db, instance, chunks, built_from, serverVars,
                 argVars, build_started, searched, builders, pdf_files>>

\* initialize_server: retrieval_handler = RetrievalHandler(pdf_processor)
SetHandler(t) ==
  /\ pc[t] = "sethandler"
  /\ retrieval_handler' = TRUE
  /\ pc' = [pc EXCEPT ![t] = "retrieve"]
  /\ UNCHANGED <<envVars, fnVars, vector_db, processorVars, pdf_processor, argVars, result,
                 build_started, searched, builders, pdf_files>>

\* the call reaches hybrid_retriever.invoke
ReachesInvoke(q) == ~QueryIsEmpty(q) /\ ~hybrid_retriever.is_none

\* mutant of ToolRetrieve: the search uses up the persisted store
ToolRetrieveUsesUpStore(t, invoke_fails) ==
  /\ pc[t] = "retrieve"
  /\ invoke_fails => ReachesInvoke(query[t])
  /\ searched' = [searched EXCEPT ![t] = ReachesInvoke(query[t])]
  /\ Finish(t, HandlerRetrieve(hybrid_retriever, vector_db, query[t], max_chunks[t],
                               invoke_fails))
  /\ vector_db' = IF ReachesInvoke(query[t]) THEN <<>> ELSE vector_db
  /\ UNCHANGED <<envVars, fnVars, processorVars, serverVars, argVars,
                 build_started, builders, pdf_files>>

\* retrieve_pdf_chunks: retrieval_handler.retrieve and the payload
ToolRetrieve(t, invoke_fails) ==
  /\ pc[t] = "retrieve"
  /\ invoke_fails => ReachesInvoke(query[t])
  /\ searched' = [searched EXCEPT ![t] = ReachesInvoke(query[t])]
  /\ Finish(t, HandlerRetrieve(hybrid_retriever, vector_db, query[t], max_chunks[t],
                               invoke_fails))
  /\ UNCHANGED <<envVars, fnVars, vector_db, processorVars, serverVars, argVars,
                 build_started, builders, pdf_files>>

\* the caller has its answer
Return(t) ==
  /\ pc[t] = "done"
  /\ pc' = [pc EXCEPT ![t] = "idle"]
  /\ entry' = [entry EXCEPT ![t] = "none"]
  /\ query' = [query EXCEPT ![t] = <<>>]
  /\ max_chunks' = [max_chunks EXCEPT ![t] = 0]
  /\ result' = [result EXCEPT ![t] = NoResult]
  /\ build_started' = [build_started EXCEPT ![t] = FALSE]
  /\ searched' = [searched EXCEPT ![t] = FALSE]
  /\ pdf_files' = [pdf_files EXCEPT ![t] = NoFiles]
  /\ UNCHANGED <<envVars, fnVars, vector_db, processorVars, serverVars, builders>>

\* one call at a time: the calls are those of the first caller
SeqCallers == {1}

BuildStep(t, lists) ==
  \/ \E files \in lists : LoadAndDedup(t, files)
  \/ \E fails \in BOOLEAN : BuildVectorStore(t, fails)
  \/ \E fails \in BOOLEAN : BuildBM25AndInstall(t, fails)

ServerStep(t, lists) ==
  \/ \E clear_fails \in BOOLEAN : InitializeServer(t, clear_fails)
  \/ \E dir_exists \in BOOLEAN : ValidateAndConstruct(t, dir_exists)
  \/ BuildStep(t, lists)
  \/ SetHandler(t)
  \/ \E invoke_fails \in BOOLEAN : ToolRetrieve(t, invoke_fails)
  \/ Return(t)

\* the server, one tool call at a time
Next ==
  \/ \E t \in SeqCallers, q \in Queries, k \in Limits : ToolCall(t, q, k)
  \/ \E t \in SeqCallers : ServerStep(t, FileLists)
Spec == Init /\ [][Next]_vars

\* the server, tool calls interleaving
NextConc ==
  \/ \E t \in Callers, q \in ConcQueries, k \in ConcLimits : ToolCall(t, q, k)
  \/ \E t \in Callers : ServerStep(t, ConcFileLists)
SpecConc == Init /\ [][NextConc]_vars

\* the other callers are between calls: idle, or holding the answer they got
OthersRest(t) == \A u \in Callers \ {t} : pc[u] \in {"idle", "done"}

\* the server, one tool call at a time, the callers taking turns: a caller
\* keeps its answer while the calls of the others are served
NextTurns ==
  \/ \E t \in Callers, q \in Queries, k \in Limits : OthersRest(t) /\ ToolCall(t, q, k)
  \/ \E t \in Callers : OthersRest(t) /\ ServerStep(t, ConcFileLists)
SpecTurns == Init /\ [][NextTurns]_vars

(***************************************************************************)
(* A client of the classes: PDFProcessor, RetrievalHandler, QueryHandler   *)
(***************************************************************************)
\* PDFProcessor(): the singleton is created and initialised once
Construct ==
  /\ instance' = TRUE
  /\ chunks' = IF instance THEN chunks ELSE <<>>
  /\ hybrid_retriever' = IF instance THEN hybrid_retriever ELSE NoRetriever

\* PDFProcessor().load_and_index_pdfs() is entered
LibLoad(t) ==
  /\ pc[t] = "idle"
  /\ Construct
  /\ entry' = [entry EXCEPT ![t] = "load"]
  /\ pc' = [pc EXCEPT ![t] = "load"]
  /\ build_started' = [build_started EXCEPT ![t] = TRUE]
  /\ builders' = builders \cup {t}
  /\ UNCHANGED <<envVars, fnVars, vector_db, built_from, builds_ok, serverVars, query,
                 max_chunks, result, searched, pdf_files>>

\* PDFProcessor.clear_vector_db()
LibClearVectorDb(t, clear_fails) ==
  /\ pc[t] = "idle"
  /\ vector_db # <<>>
  /\ clear_fails => Len(vector_db) + MaxCorpus <= MaxStore
  /\ vector_db' = IF clear_fails THEN vector_db ELSE <<>>
  /\ UNCHANGED <<envVars, fnVars, processorVars, serverVars, argVars, pc, result,
                 build_started, searched, builders, pdf_files>>

\* RetrievalHandler(PDFProcessor()).retrieve(q, k)
LibRetrieve(t, q, k, invoke_fails) ==
  /\ pc[t] = "idle"
  /\ Construct
  /\ invoke_fails => ReachesInvoke(q)
  /\ entry' = [entry EXCEPT ![t] = "retrieve"]
  /\ query' = [query EXCEPT ![t] = q]
  /\ max_chunks' = [max_chunks EXCEPT ![t] = k]
  /\ searched' = [searched EXCEPT ![t] = ReachesInvoke(q)]
  /\ result' = [result EXCEPT ![t] =
                  LibReturn(HandlerRetrieve(hybrid_retriever, vector_db, q, k, invoke_fails))]
  /\ pc' = [pc EXCEPT ![t] = "done"]
  /\ UNCHANGED <<envVars, fnVars, vector_db, built_from, builds_ok, serverVars,
                 build_started, builders, pdf_files>>

\* QueryHandler(PDFProcessor()).query(q)
LibQuery(t, q, llm_answer, llm_fails, invoke_fails) ==
  /\ pc[t] = "idle"
  /\ Construct
  /\ invoke_fails => ReachesInvoke(q)
  /\ entry' = [entry EXCEPT ![t] = "query"]
  /\ query' = [query EXCEPT ![t] = q]
  /\ max_chunks' = [max_chunks EXCEPT ![t] = QUERY_K]
  /\ searched' = [searched EXCEPT ![t] = ReachesInvoke(q)]
  /\ result' = [result EXCEPT ![t] =
                  LibReturn(HandlerQuery(hybrid_retriever, vector_db, q, llm_answer,
                                         llm_fails, invoke_fails))]
  /\ pc' = [pc EXCEPT ![t] = "done"]
  /\ UNCHANGED <<envVars, fnVars, vector_db, built_from, builds_ok, serverVars,
                 build_started, builders, pdf_files>>

InitLib == Init /\ api_key_set

\* the client, one call at a time
NextLib ==
  \/ \E t \in SeqCallers : LibLoad(t)
  \/ \E t \in SeqCallers : BuildStep(t, LibFileLists)
  \/ \E t \in SeqCallers, clear_fails \in BOOLEAN : LibClearVectorDb(t, clear_fails)
  \/ \E t \in SeqCallers, q \in Queries, k \in Limits, invoke_fails \in BOOLEAN :
       LibRetrieve(t, q, k, invoke_fails)
  \/ \E t \in SeqCallers, q \in Queries, a \in Answers, llm_fails, invoke_fails \in BOOLEAN :
       LibQuery(t, q, a, llm_fails, invoke_fails)
  \/ \E t \in SeqCallers : Return(t)
SpecLib == InitLib /\ [][NextLib]_vars

(***************************************************************************)
(* The scoring, citation and ranking functions called on their own         *)
(***************************************************************************)
\* answer texts: empty, the lengths around both thresholds, every phrase in
\* lower, upper and mixed case, near misses
AnswerTexts ==
  { "",
    "Short",
    Repeat("x", 29),
    Repeat("x", 30),
    Repeat("x", 100),
    Repeat("x", 101),
    "I don't know",
    "I DON'T KNOW the answer to this question.",
    "I couldn't find any information",
    "There is Not Enough Information in the documents to say.",
    "UNCLEAR",
    "It is uncertain.",
    "It is certain and clear.",
    "I do not know; I could not find it.",
    "Medium length answer here, it is unclear" \o Repeat("x", 60),
    "Very long answer " \o Repeat("x", 84),
    "Very long answer, Uncertain " \o Repeat("x", 73),
    NoChunksFoundAnswer }
\* chunk counts: negative, zero, around the threshold, very large
ChunkCounts == { -1000000, -1, 0, 1, 2, 3, 4, 1000000 }

ConfidenceInputs ==
  { [NoInput EXCEPT !.fn = "confidence", !.answer = a, !.num_chunks = n] :
      a \in AnswerTexts, n \in ChunkCounts }
\* chunk bodies of 0, 1, 199, 200, 201, 250 and 300 characters
Body(n) == SubSeq(Repeat("abcdefghij", 30), 1, n)
PreviewBodies == { Body(0), Body(1), Body(199), Body(200), Body(201), Body(250),
                   Repeat("This is a test content that is longer than 200 characters. ", 5) }
\* retrieved chunks: the metadata holds a source or none, a page or none
CitedChunks ==
  LET bodies == {"Content 1", "Content 2"}
      names == {"test.pdf", "Unknown"}
      pages == {SomeInt(1), SomeInt(2)}
  IN  [page_content : bodies]
        \cup [page_content : bodies, source : names]
        \cup [page_content : bodies, page : pages]
        \cup [page_content : bodies, source : names, page : pages]
ChunkLists ==
  UNION { [1..n -> CitedChunks] : n \in 0..MaxChunks }
    \cup { <<[page_content |-> b, source |-> "test.pdf", page |-> SomeInt(42)]>> :
             b \in PreviewBodies }
    \cup { <<[page_content |-> b, source |-> "test.pdf"],
             [page_content |-> c, source |-> "test.pdf"],
             [page_content |-> b, source |-> "other.pdf"]>> :
             b, c \in {Body(200), Body(201), Body(250)} }
SourcesInputs == { [NoInput EXCEPT !.fn = "sources", !.chunks = c] : c \in ChunkLists }
\* what the two sub-indexes hand to the fusion.  The lexical list holds chunks
\* of the deduplicated chunk list, each at most once; the semantic list holds
\* documents of the persisted store, which keeps one copy of a chunk per build
\* that was added to it, the copies of a chunk next to each other (they have
\* one embedding, hence one distance to the query).
Stored(w) == [page_content |-> w, source |-> "d1.pdf", header |-> "H1"]
Contents == {"a", "b", "c", "d"}
LexLists ==
  { l \in UNION { [1..n -> {Stored(w) : w \in Contents}] : n \in 0..BM25_TOP_K } :
      \A i, j \in 1..Len(l) : i # j => l[i] # l[j] }
SemLists ==
  { l \in UNION { [1..n -> {Stored(w) : w \in Contents}] : n \in 0..VECTOR_SEARCH_TOP_K } :
      \A i, j \in 1..Len(l) :
        (i < j /\ l[i] = l[j]) => \A m \in i..j : l[m] = l[i] }
FusionLimits == { -1, 0, 2, DEFAULT_CHUNK_LIMIT }
FusionInputs ==
  { [NoInput EXCEPT !.fn = "retrieve", !.lex = l, !.sem = v, !.k = n] :
      l \in LexLists, v \in SemLists, n \in FusionLimits }
FnInputs == ConfidenceInputs \cup SourcesInputs \cup FusionInputs

\* confidence.estimate_confidence(answer, num_chunks)
CallModuleEstimateConfidence ==
  /\ fn_input.fn = "confidence"
  /\ "module" \notin fn_output.done
  /\ fn_output' = [fn_output EXCEPT
                     !.done = @ \cup {"module"},
                     !.module = ModuleEstimateConfidence(fn_input.answer,
                                                         fn_input.num_chunks)]
  /\ UNCHANGED <<envVars, vector_db, processorVars, serverVars, argVars, pc, result,
                 build_started, searched, builders, pdf_files, fn_input>>

\* QueryHandler._estimate_confidence(answer, num_chunks)
CallEstimateConfidence ==
  /\ fn_input.fn = "confidence"
  /\ "method" \notin fn_output.done
  /\ fn_output' = [fn_output EXCEPT
                     !.done = @ \cup {"method"},
                     !.method = EstimateConfidence(fn_input.answer,
                                                   fn_input.num_chunks)]
  /\ UNCHANGED <<envVars, vector_db, processorVars, serverVars, argVars, pc, result,
                 build_started, searched, builders, pdf_files, fn_input>>

\* QueryHandler._extract_sources(chunks)
CallExtractSources ==
  /\ fn_input.fn = "sources"
  /\ "sources" \notin fn_output.done
  /\ fn_output' = [fn_output EXCEPT
                     !.done = @ \cup {"sources"},
                     !.sources = ExtractSources(fn_input.chunks, {})]
  /\ UNCHANGED <<envVars, vector_db, processorVars, serverVars, argVars, pc, result,
                 build_started, searched, builders, pdf_files, fn_input>>

\* PDFProcessor.retrieve_relevant_chunks on the lists the sub-indexes returned:
\* results = hybrid_retriever.invoke(query), then results[:k]
CallRetrieveRelevantChunks ==
  /\ fn_input.fn = "retrieve"
  /\ "retrieve" \notin fn_output.done
  /\ LET results == WeightedReciprocalRank(fn_input.lex, fn_input.sem)
     IN  fn_output' = [fn_output EXCEPT
                         !.done = @ \cup {"retrieve"},
                         !.fused = results,
                         !.results = SliceTo(results, fn_input.k)]
  /\ UNCHANGED <<envVars, vector_db, processorVars, serverVars, argVars, pc, result,
                 build_started, searched, builders, pdf_files, fn_input>>

InitFn == InitProgram /\ api_key_set /\ fn_input \in FnInputs /\ fn_output = NoOutput
NextFn ==
  \/ CallModuleEstimateConfidence
  \/ CallEstimateConfidence
  \/ CallExtractSources
  \/ CallRetrieveRelevantChunks
SpecFn == InitFn /\ [][NextFn]_vars

(***************************************************************************)
(* Properties                                                              *)
(***************************************************************************)
\* a call of RetrievalHandler.retrieve (through the tool or direct) has returned
RetrieveReturned(t) ==
  /\ pc[t] = "done"
  /\ entry[t] \in {"tool", "retrieve"}
  /\ result[t].kind \in {"json", "returned"}

\* the unique chunks the two sub-indexes make available for the query of t
Available(t) == HybridInvoke(hybrid_retriever, vector_db, Strip(query[t]))

\* C1: for every limit n the caller passes, retrieve returns at most n results
\* and exactly min(n, available unique chunks).  A negative n is read as "no
\* result"; the available chunks are those of the fused list.
C1_LimitRespected ==
  \A t \in Callers :
    RetrieveReturned(t) =>
      LET n == Max(max_chunks[t], 0)
      IN  /\ result[t].value.total_chunks <= n
          /\ result[t].value.total_chunks = Min(n, Len(Available(t)))

\* C2: a tool call with an empty or whitespace-only query starts no corpus
\* build, invokes no search and ends with the validation error payload, in
\* every server state.
C2_EmptyQueryTouchesNoIndex ==
  \A t \in Callers :
    (entry[t] = "tool" /\ QueryIsEmpty(query[t])) =>
      /\ ~build_started[t]
      /\ ~searched[t]
      /\ pc[t] = "done" => result[t].kind = "validation_error"

\* the chunk candidates of a build in processing order: the chunks of every
\* file that was converted
RECURSIVE Candidates(_)
Candidates(files) ==
  IF files = <<>> THEN <<>>
  ELSE (IF Head(files).md.converted THEN ProcessPdf(Head(files)) ELSE <<>>)
       \o Candidates(Tail(files))

\* C3: after a corpus build no two chunks of the chunk store have the same
\* content hash; of the candidates with one content exactly one is kept, and
\* it is the first in processing order (with that candidate's source).
C3_UniqueFirstWins ==
  built_from.built =>
    LET cand == Candidates(built_from.files)
    IN  /\ \A i, j \in 1..Len(chunks) :
             i # j => GenerateHash(chunks[i].page_content)
                        # GenerateHash(chunks[j].page_content)
        /\ \A i \in 1..Len(cand) :
             \E k \in 1..Len(chunks) :
               /\ chunks[k].page_content = cand[i].page_content
               /\ \E f \in 1..i :
                    /\ cand[f] = chunks[k]
                    /\ \A e \in 1..(f - 1) : cand[e].page_content # cand[f].page_content

\* C3 witness: a built corpus whose documents share a content: the second
\* document repeats a chunk of the first
C3_Witness ==
  /\ built_from.built
  /\ ~hybrid_retriever.is_none
  /\ \E i, j \in 1..Len(Candidates(built_from.files)) :
       LET cand == Candidates(built_from.files)
       IN  /\ i < j
           /\ cand[i].page_content = cand[j].page_content
           /\ cand[i].source # cand[j].source

\* the states of a call in which it is building the corpus: from the clearing
\* of the vector store to the end of load_and_index_pdfs
BuildPCs == {"validate", "load", "vector", "bm25", "sethandler"}
Building == {t \in Callers : pc[t] \in BuildPCs}

\* C4: under any interleaving of tool calls the corpus build is executed by
\* at most one caller, never overlaps another build and never overlaps a
\* retrieval being served.
C4_BuildOneTimeNonConcurrent ==
  /\ Cardinality(builders) <= 1
  /\ Cardinality(Building) <= 1
  /\ \A t \in Building : \A u \in Callers \ {t} : pc[u] # "retrieve"

\* C5: while no corpus build has completed successfully on the processor,
\* retrieve_relevant_chunks fails with the retriever-not-ready error and
\* returns no chunk list.
C5_NotReadyFails ==
  \A t \in Callers :
    (/\ pc[t] = "done"
     /\ entry[t] \in {"retrieve", "query"}
     /\ ~QueryIsEmpty(query[t])
     /\ ~builds_ok) =>
      /\ result[t].kind = "raised"
      /\ result[t].exc = "ValueError"
      /\ result[t].msg = "Retriever not initialized"

\* C5 witness: a retrieval against a processor whose chunk list is set but
\* whose index construction failed
C5_Witness ==
  \E t \in Callers :
    /\ pc[t] = "done"
    /\ entry[t] = "retrieve"
    /\ ~QueryIsEmpty(query[t])
    /\ ~builds_ok
    /\ chunks # <<>>
    /\ result[t].msg = "Retriever not initialized"

\* C6: the tool never propagates an exception: a finished tool call holds the
\* serialised response or an error payload, a ValueError in the validation
\* form and every other exception in the internal form.
C6_ToolNeverRaises ==
  \A t \in Callers :
    (entry[t] = "tool" /\ pc[t] = "done") =>
      /\ result[t].kind \in {"json", "validation_error", "internal_error"}
      /\ result[t].kind = "json" <=> result[t].exc = "none"
      /\ result[t].kind = "validation_error" <=> result[t].exc = "ValueError"
      /\ result[t].kind = "internal_error" <=> result[t].exc \notin {"none", "ValueError"}

\* C6 witness: a tool call whose initialisation failed while building an index
C6_Witness ==
  \E t \in Callers :
    /\ entry[t] = "tool"
    /\ pc[t] = "done"
    /\ build_started[t]
    /\ result[t].kind = "internal_error"

\* the candidates that are the first with their content, in processing order
RECURSIVE KeepFirst(_, _)
KeepFirst(cand, i) ==
  IF i > Len(cand) THEN <<>>
  ELSE (IF \A e \in 1..(i - 1) : cand[e].page_content # cand[i].page_content
        THEN <<cand[i]>> ELSE <<>>)
       \o KeepFirst(cand, i + 1)

\* no file of the list yields a chunk
EmptyInput(files) ==
  \A i \in 1..Len(files) : ~files[i].md.converted \/ files[i].md.segments = <<>>

\* C7: a document whose processing fails is skipped without aborting the
\* build: whenever some document yields a chunk the build goes on to the
\* indexes, and the corpus it installs is the first-occurrence deduplication,
\* in processing order, of the chunks of the documents that were processed
\* successfully.
C7_FailedDocumentsSkipped ==
  [][\A t \in Callers :
       (pc[t] = "load" /\ pc'[t] # "load" /\ ~EmptyInput(pdf_files'[t].files)) =>
         /\ pc'[t] = "vector"
         /\ chunks' = KeepFirst(Candidates(pdf_files'[t].files), 1)]_vars

\* C7 witness: a completed build whose first document failed and whose later
\* document gave the corpus
C7_Witness ==
  /\ built_from.built
  /\ ~hybrid_retriever.is_none
  /\ Len(built_from.files) >= 2
  /\ ~built_from.files[1].md.converted
  /\ chunks # <<>>

\* C8: a build over no documents, or over documents none of which yields a
\* chunk, fails with the empty-corpus error; the attempt constructs no index
\* and leaves the chunk list and the retriever as they were.
C8_EmptyCorpusFails ==
  [][\A t \in Callers :
       (pc[t] = "load" /\ pc'[t] # "load" /\ EmptyInput(pdf_files'[t].files)) =>
         /\ pc'[t] = "done"
         /\ result'[t].exc = "ValueError"
         /\ result'[t].msg \in {"No PDF files found",
                                "No chunks were successfully processed"}
         /\ chunks' = chunks
         /\ hybrid_retriever' = hybrid_retriever
         /\ vector_db' = vector_db
         /\ builds_ok' = builds_ok]_vars

\* C8 witness: a rebuild that failed for an empty corpus on a processor that
\* holds the chunks and the retriever of an earlier build
C8_Witness ==
  \E t \in Callers :
    /\ pc[t] = "done"
    /\ entry[t] = "load"
    /\ result[t].msg = "No chunks were successfully processed"
    /\ chunks # <<>>
    /\ ~hybrid_retriever.is_none

IndexFailures == {"vector store failed", "BM25 failed"}

\* C9: index construction is all-or-nothing: when building the vector index
\* or the BM25 index fails, the build fails and the attempt installs no hybrid
\* retriever: the server is not ready with one of the two indexes.
C9_AllOrNothing ==
  \A t \in Callers :
    (pc[t] = "done" /\ build_started[t] /\ result[t].msg \in IndexFailures) =>
      /\ result[t].kind = "internal_error"
      /\ hybrid_retriever.is_none
      /\ ~retrieval_handler
      /\ ~builds_ok

\* C9 witness: the vector index was built and the BM25 index failed
C9_Witness ==
  \E t \in Callers :
    /\ pc[t] = "done"
    /\ result[t].msg = "BM25 failed"
    /\ vector_db # <<>>
    /\ hybrid_retriever.is_none

\* C10: when the hybrid retriever returns no chunks for a non-blank query,
\* retrieval mode returns chunks = [] and total_chunks = 0, not an error, and
\* answer mode returns the fixed no-information answer with no sources and
\* confidence 0.0.
C10_NoMatchPath ==
  \A t \in Callers :
    (/\ pc[t] = "done"
     /\ entry[t] \in {"retrieve", "query"}
     /\ searched[t]
     /\ result[t].msg # "retriever failed"
     /\ Available(t) = <<>>) =>
      /\ result[t].kind = "returned"
      /\ IF entry[t] = "retrieve"
         THEN /\ result[t].value.chunks = <<>>
              /\ result[t].value.total_chunks = 0
         ELSE /\ result[t].value.answer = NoChunksFoundAnswer
              /\ result[t].value.sources = <<>>
              /\ result[t].value.confidence_score = FZero

\* C10 witness: answer mode over a built corpus in which nothing matches
C10_Witness ==
  \E t \in Callers :
    /\ pc[t] = "done"
    /\ entry[t] = "query"
    /\ searched[t]
    /\ ~hybrid_retriever.is_none
    /\ result[t].kind = "returned"
    /\ result[t].value.answer = NoChunksFoundAnswer

\* a score lies in [0.0, 1.0]
InUnitInterval(x) == ~FLess(x, FZero) /\ ~FLess(FOne, x)

\* C11: for every answer text and every chunk count (zero, negative and very
\* large counts included) the confidence score of either implementation lies
\* in the closed interval [0.0, 1.0].
C11_ConfidenceInUnitInterval ==
  /\ "module" \in fn_output.done => InUnitInterval(fn_output.module)
  /\ "method" \in fn_output.done => InUnitInterval(fn_output.method)

\* C11 witness: both implementations have scored a short uncertain answer over
\* one chunk, whose unclamped sum is negative
C11_Witness ==
  /\ fn_output.done = {"module", "method"}
  /\ fn_input.answer = "I don't know"
  /\ fn_input.num_chunks = 1
  /\ fn_output.module = FZero
  /\ fn_output.method = FZero

\* the values 0.5, 0.2, 0.1 and 0.3 of the scoring rule, as binary64
Half == Float(FALSE, 134217728, 0)
TwoTenths == Float(FALSE, 53687091, 53687092)
OneTenth == Float(FALSE, 26843545, 161061274)
ThreeTenths == Float(FALSE, 80530636, 214748364)
LengthTerm(answer) ==
  IF Len(answer) > 100 THEN TwoTenths
  ELSE IF Len(answer) < 30 THEN FNeg(TwoTenths) ELSE FZero
CountTerm(n) == IF n >= 3 THEN TwoTenths ELSE IF n = 1 THEN FNeg(OneTenth) ELSE FZero
Markers ==
  {"i don't know", "i couldn't find", "not enough information", "unclear", "uncertain"}
UncertaintyTerm(answer) ==
  IF \E m \in Markers : Contains(Lower(answer), m) THEN ThreeTenths ELSE FZero
\* clamp[0,1](0.5 + L + C - U), the sum taken from left to right
ScoreRule(answer, n) ==
  FMax(FZero,
       FMin(FOne,
            FSub(FAdd(FAdd(Half, LengthTerm(answer)), CountTerm(n)),
                 UncertaintyTerm(answer))))

\* C12: for every answer text and chunk count the score is
\* clamp[0,1](0.5 + L + C - U): L is +0.2 above 100 characters, -0.2 below 30
\* and 0 from 30 to 100; C is +0.2 from 3 chunks on, -0.1 for exactly 1 and 0
\* otherwise; U is 0.3 when the lower-cased answer contains one of the five
\* markers, whatever L and C are.  confidence.estimate_confidence and
\* QueryHandler._estimate_confidence both return this value.
C12_ScoreFollowsRule ==
  /\ "module" \in fn_output.done =>
       fn_output.module = ScoreRule(fn_input.answer, fn_input.num_chunks)
  /\ "method" \in fn_output.done =>
       fn_output.method = ScoreRule(fn_input.answer, fn_input.num_chunks)

\* C12 witness: both implementations have scored an answer of exactly 100
\* characters that holds a marker, over one chunk
C12_Witness ==
  /\ fn_output.done = {"module", "method"}
  /\ Len(fn_input.answer) = 100
  /\ UncertaintyTerm(fn_input.answer) = ThreeTenths
  /\ fn_input.num_chunks = 1
  /\ fn_output.module = fn_output.method
  /\ fn_output.module = Float(FALSE, 26843545, 161061276)

\* the (document_name, page_number) pair of a chunk and of a Source
PairOf(chunk) == <<Get(chunk, "source", "Unknown"), Get(chunk, "page", None)>>
PairOfSource(src) == <<src.document_name, src.page_number>>
\* the place of the first chunk that has the pair
FirstSeen(list, pair) ==
  CHOOSE i \in 1..Len(list) :
    /\ PairOf(list[i]) = pair
    /\ \A j \in 1..(i - 1) : PairOf(list[j]) # pair
\* the preview of a chunk body: the body, or its first 200 characters and the
\* marker
PreviewOf(body) == IF Len(body) <= 200 THEN body ELSE SubSeq(body, 1, 200) \o "..."

\* C13: source extraction yields exactly one Source per distinct
\* (document_name, page_number) pair of the chunks, an absent page being a
\* value of its own, in the order in which the pairs are first seen, each with
\* the preview of the first chunk that has the pair.
C13_OneSourcePerPair ==
  "sources" \in fn_output.done =>
    LET list == fn_input.chunks
        out == fn_output.sources
    IN  /\ {PairOfSource(out[i]) : i \in 1..Len(out)}
             = {PairOf(list[i]) : i \in 1..Len(list)}
        /\ \A i, j \in 1..Len(out) :
             i < j => /\ PairOfSource(out[i]) # PairOfSource(out[j])
                      /\ FirstSeen(list, PairOfSource(out[i]))
                           < FirstSeen(list, PairOfSource(out[j]))
        /\ \A i \in 1..Len(out) :
             out[i].chunk_text
               = PreviewOf(list[FirstSeen(list, PairOfSource(out[i]))].page_content)

\* C13 witness: three chunks, the first and the third of the same document
\* and page with different bodies, the second without a page
C13_Witness ==
  /\ "sources" \in fn_output.done
  /\ Len(fn_input.chunks) = 3
  /\ PairOf(fn_input.chunks[1]) = PairOf(fn_input.chunks[3])
  /\ PairOf(fn_input.chunks[1]) # PairOf(fn_input.chunks[2])
  /\ PairOf(fn_input.chunks[2])[2] = None
  /\ fn_input.chunks[1].page_content # fn_input.chunks[3].page_content
  /\ Len(fn_output.sources) = 2
  /\ fn_output.sources[1].chunk_text = fn_input.chunks[1].page_content

\* C14: the preview of a chunk body of length n is the body itself when
\* n <= 200, and the first 200 characters followed by the marker "...", 203
\* characters in all, when n > 200; no preview is longer than 203 characters.
C14_PreviewTruncation ==
  "sources" \in fn_output.done =>
    \A i \in 1..Len(fn_output.sources) :
      LET body == fn_input.chunks[FirstSeen(fn_input.chunks,
                                            PairOfSource(fn_output.sources[i]))].page_content
          text == fn_output.sources[i].chunk_text
      IN  /\ Len(body) <= 200 => text = body
          /\ Len(body) > 200 =>
               /\ SubSeq(text, 1, 200) = SubSeq(body, 1, 200)
               /\ SubSeq(text, 201, Len(text)) = "..."
               /\ Len(text) = 203
          /\ Len(text) <= 203

\* C14 witness: a body of 250 characters has given a preview of 203
C14_Witness ==
  /\ "sources" \in fn_output.done
  /\ Len(fn_input.chunks) = 1
  /\ Len(fn_input.chunks[1].page_content) = 250
  /\ Len(fn_output.sources) = 1
  /\ Len(fn_output.sources[1].chunk_text) = 203

(***************************************************************************)
(* C15                                                                     *)
(***************************************************************************)
\* the rank positions a content holds in a result list
PositionsIn(list, content) ==
  { i \in 1..Len(list) : list[i].page_content = content }
ContentsOf(list) == { list[i].page_content : i \in 1..Len(list) }
InBothLists(lex, sem, content) ==
  PositionsIn(lex, content) # {} /\ PositionsIn(sem, content) # {}
InOneList(lex, sem, content) ==
  (PositionsIn(lex, content) = {}) # (PositionsIn(sem, content) = {})
SameRankPosition(lex, sem, x, y) ==
  (PositionsIn(lex, x) \cup PositionsIn(sem, x))
    \cap (PositionsIn(lex, y) \cup PositionsIn(sem, y)) # {}
PlaceOf(list, content) == CHOOSE i \in PositionsIn(list, content) : TRUE

\* C15: in the fused result a chunk of both the lexical and the semantic list
\* stands at or above every chunk of only one list that holds the same rank
\* position (sub-index limits 3 and 3, weights 0.5/0.5).
C15_BothListsRankFirst ==
  "retrieve" \in fn_output.done =>
    \A x, y \in ContentsOf(fn_output.fused) :
      ( /\ InBothLists(fn_input.lex, fn_input.sem, x)
        /\ InOneList(fn_input.lex, fn_input.sem, y)
        /\ SameRankPosition(fn_input.lex, fn_input.sem, x, y) )
      => PlaceOf(fn_output.fused, x) <= PlaceOf(fn_output.fused, y)

\* the persisted store holds a chunk twice
C15_StoreHoldsCopies ==
  \E i, j \in 1..Len(vector_db) :
    i # j /\ vector_db[i].page_content = vector_db[j].page_content

(***************************************************************************)
(* C16                                                                     *)
(***************************************************************************)
\* the rank of a content in a sub-index list; past the last rank when absent
RankIn(list, content) ==
  IF PositionsIn(list, content) = {} THEN Len(list) + 1
  ELSE CHOOSE i \in PositionsIn(list, content) :
         \A j \in PositionsIn(list, content) : i <= j
FusedScore(content) == RRFScore(fn_input.lex, fn_input.sem, content)
\* x goes before y: by lexical rank, chunks without one last, then by
\* semantic rank
RankedBefore(x, y) ==
  LET lx == IF PositionsIn(fn_input.lex, x) = {} THEN BM25_TOP_K + 1
            ELSE RankIn(fn_input.lex, x)
      ly == IF PositionsIn(fn_input.lex, y) = {} THEN BM25_TOP_K + 1
            ELSE RankIn(fn_input.lex, y)
      sx == IF PositionsIn(fn_input.sem, x) = {} THEN VECTOR_SEARCH_TOP_K + 1
            ELSE RankIn(fn_input.sem, x)
      sy == IF PositionsIn(fn_input.sem, y) = {} THEN VECTOR_SEARCH_TOP_K + 1
            ELSE RankIn(fn_input.sem, y)
  IN  lx < ly \/ (lx = ly /\ sx < sy)

\* C16: the returned list is in non-increasing fused score, chunks of one
\* score by lexical rank and then semantic rank, and it is a prefix of the
\* fused list.
C16_OrderedByScoreThenRank ==
  "retrieve" \in fn_output.done =>
    LET returned == fn_output.results
    IN  /\ \A i, j \in 1..Len(returned) :
             i < j =>
               /\ FusedScore(returned[i].page_content)
                    >= FusedScore(returned[j].page_content)
               /\ FusedScore(returned[i].page_content)
                    = FusedScore(returned[j].page_content)
                  => RankedBefore(returned[i].page_content, returned[j].page_content)
        /\ Len(returned) <= Len(fn_output.fused)
        /\ returned = SubSeq(fn_output.fused, 1, Len(returned))

\* a truncated list of two chunks of one score, one of them first in the
\* lexical list and the other first in the semantic list
C16_Witness ==
  /\ "retrieve" \in fn_output.done
  /\ Len(fn_output.results) = 2
  /\ Len(fn_output.fused) = 3
  /\ FusedScore(fn_output.results[1].page_content)
       = FusedScore(fn_output.results[2].page_content)
  /\ RankIn(fn_input.lex, fn_output.results[1].page_content) = 1
  /\ RankIn(fn_input.sem, fn_output.results[2].page_content) = 1

(***************************************************************************)
(* C17                                                                     *)
(***************************************************************************)
\* the caller holds the chunks a retrieve call returned
HoldsChunks(t) ==
  pc[t] = "done" /\ entry[t] = "tool" /\ result[t].kind = "json"

\* C17: on a built corpus two retrieve calls with the same query string and
\* the same limit return the same chunks in the same order, whatever calls
\* were served between them.
C17_SameQuerySameResult ==
  \A t, u \in Callers :
    ( /\ HoldsChunks(t) /\ HoldsChunks(u)
      /\ query[t] = query[u]
      /\ max_chunks[t] = max_chunks[u] )
    => result[t].value.chunks = result[u].value.chunks

\* two callers hold the answers of the same query, of two chunks
C17_Witness ==
  \E t, u \in Callers :
    /\ t # u
    /\ HoldsChunks(t) /\ HoldsChunks(u)
    /\ query[t] = query[u]
    /\ max_chunks[t] = max_chunks[u]
    /\ Len(result[t].value.chunks) >= 2

(***************************************************************************)
(* C18                                                                     *)
(***************************************************************************)
InitPCs == {"init", "validate", "load", "vector", "bm25", "sethandler"}

\* Uninitialized -> Building -> Ready: the handler is set by the call that
\* built, after the retriever was installed over the chunk list
HandlerSetAfterBuild ==
  /\ (~retrieval_handler /\ retrieval_handler') =>
        \E t \in Callers :
          /\ pc[t] = "sethandler" /\ build_started[t]
          /\ builds_ok /\ ~hybrid_retriever.is_none
          /\ hybrid_retriever.bm25_docs = chunks /\ chunks # <<>>
  /\ retrieval_handler' => (builds_ok' /\ ~hybrid_retriever'.is_none)

\* Building -> Failed: the call ends with an error payload and the handler
\* stays unset; Failed = Uninitialized: the next call starts with the clearing
\* of the store and goes through the whole build
FailedInitStartsOver ==
  \A t \in Callers :
    /\ (pc[t] \in InitPCs /\ pc'[t] = "done") =>
         /\ ~retrieval_handler'
         /\ result'[t].kind \in {"validation_error", "internal_error"}
    /\ (~retrieval_handler /\ pc[t] = "idle" /\ pc'[t] # "idle") => pc'[t] = "init"
    /\ (~retrieval_handler /\ pc[t] = "init" /\ pc'[t] # "init") =>
         /\ pc'[t] = "validate" /\ build_started'[t]
         /\ vector_db' \in {<<>>, vector_db}

\* Ready: no call builds or clears any more
ReadyStays ==
  retrieval_handler =>
    /\ retrieval_handler'
    /\ UNCHANGED <<vector_db, chunks, hybrid_retriever, builders, built_from>>
    /\ \A t \in Callers :
         pc'[t] \notin InitPCs /\ (build_started'[t] => build_started[t])

\* C18: with tool calls served one at a time the handler is set only after a
\* build that completed; a failed initialisation leaves the handler unset and
\* the next call builds from the start; once the handler is set no call
\* builds or clears the vector store.
C18_LazyInitStateMachine ==
  [][HandlerSetAfterBuild /\ FailedInitStartsOver /\ ReadyStays]_vars

\* a call served by the ready server without building, after an earlier
\* initialisation had failed with the store written and a later one succeeded
\* over the store that was not cleared
C18_Witness ==
  \E t \in Callers :
    /\ retrieval_handler
    /\ pc[t] = "done" /\ ~build_started[t] /\ result[t].kind = "json"
    /\ Len(vector_db) > Len(chunks)

(***************************************************************************)
(* C19                                                                     *)
(***************************************************************************)
\* no build attempt is under way on the processor
NoBuildUnderWay == \A t \in Callers : pc[t] \notin {"load", "vector", "bm25"}

\* C19: after any sequence of build attempts and queries, whenever the hybrid
\* retriever is set it was constructed from the current chunk list of the
\* processor.
C19_RetrieverOverCurrentChunks ==
  (NoBuildUnderWay /\ ~hybrid_retriever.is_none)
    => hybrid_retriever.bm25_docs = chunks
====
